---- MODULE Spec2Model ----
(***************************************************************************)
(* Model of email_server.py: the Flask handlers send_single_email and      *)
(* send_bulk_emails, and EmailSender.send_email (one SMTP session per      *)
(* attempt, at most max_retries attempts, a fixed retry_delay between      *)
(* them).  One request is followed from its arrival to its response.       *)
(* A bulk request runs one send_email call per recipient on a              *)
(* ThreadPoolExecutor of max_workers threads; the request thread collects  *)
(* the futures with as_completed.                                          *)
(***************************************************************************)
EXTENDS Integers, Sequences, FiniteSets, TLC

VARIABLES
    mainpc,       \* position of the request thread
    req,          \* the request as parsed (request.json and its endpoint)
    smtp_port,    \* EmailSender.smtp_port (0 before a sender is constructed)
    recipients,   \* the recipient list of the request (single: <<to>>)
    max_workers,  \* the pool's limit (single: 1, the request thread itself)
    submitted,    \* number of executor.submit calls made so far
    pc,           \* per send_email call: its position
    attempt,      \* per call: the loop variable `attempt`
    hist,         \* per call: the results of its transport attempts, in order
    delays,       \* per call: number of time.sleep(retry_delay) calls made
    session,      \* per call: the steps done on its SMTP session while it is open
    outcome,      \* per call: the dict send_email returned
    waiter,       \* futures completed after as_completed installed its waiter
    yielded,      \* futures as_completed has yielded, in order
    results,      \* the handler's list `results`
    resp,         \* the HTTP response of the send request
    completion,   \* the futures in the order they completed; 0 marks the call of as_completed
    health        \* the last response of /api/health

vars == <<mainpc, req, smtp_port, recipients, max_workers, submitted, pc,
          attempt, hist, delays, session, outcome, waiter, yielded,
          results, resp, completion, health>>

(***************************************************************************)
(* Bounds of the model.                                                    *)
(***************************************************************************)
MaxRecipients == 2
MaxWorkers == 2

(***************************************************************************)
(* Program constants.                                                      *)
(***************************************************************************)
max_retries == 3
retry_delay == 1

Addresses == {"a@x", "b@x"}

\* The values the JSON field smtp_port is drawn from; the last is no number.
PortInputs == {"465", "587", "25", "abc"}

\* int(smtp_port) of EmailSender.__init__; defined on the numerals only.
CanParseInt(s) == s \in {"465", "587", "25"}
ParseInt(s) == CASE s = "465" -> 465 [] s = "587" -> 587 [] s = "25" -> 25

\* The values of the JSON field recipients: a list of addresses (the empty
\* list included), or a value that is not a list, falsy (missing, null, "")
\* or truthy (a non-empty string, a number).
RecipientInputs ==
    UNION {{[isList |-> TRUE, truthy |-> n > 0, list |-> l] :
               l \in [1..n -> Addresses]} : n \in 0..MaxRecipients}
    \cup {[isList |-> FALSE, truthy |-> b, list |-> <<>>] : b \in BOOLEAN}

\* The values of the JSON field max_workers.
WorkerInputs == -1..MaxWorkers

\* The required scalar fields of a request; a request names the ones that are
\* missing or empty.
BulkFields == {"from", "password", "subject", "body"}
SingleFields == {"from", "password", "to", "subject", "body"}

Range(s) == {s[i] : i \in DOMAIN s}

Tasks == DOMAIN pc

NoReq == [endpoint |-> "none", missing |-> {}, isList |-> FALSE,
          truthy |-> FALSE, list |-> <<>>, port |-> "", workers |-> 0]

NoOutcome == [recipient |-> "", success |-> FALSE, error |-> "none"]
NoResp == [status |-> 0, success |-> FALSE, error |-> "", total |-> 0,
           successful |-> 0, failed |-> 0, results |-> <<>>]

NoHealth == [status |-> 0, body |-> ""]

AuthError == "Authentication failed. Check email/password"
RcptError == "Recipient address rejected"
SmtpError == "SMTP error"
OtherError == "exception"
MaxRetriesError == "Max retries exceeded"

\* send_email calls that have started and not returned.
Running == {"attempt", "connected", "secured", "authed", "sent", "sleep"}
InFlight == {t \in Tasks : pc[t] \in Running}

Init ==
    /\ mainpc = "idle"
    /\ req = NoReq
    /\ smtp_port = 0
    /\ recipients = <<>>
    /\ max_workers = 0
    /\ submitted = 0
    /\ pc = <<>>
    /\ attempt = <<>>
    /\ hist = <<>>
    /\ delays = <<>>
    /\ session = <<>>
    /\ outcome = <<>>
    /\ waiter = <<>>
    /\ yielded = <<>>
    /\ results = <<>>
    /\ resp = NoResp
    /\ completion = <<>>
    /\ health = NoHealth

(***************************************************************************)
(* The request handlers up to the dispatch.                                *)
(***************************************************************************)

\* jsonify({'success': False, 'error': e}), status
ErrorResponse(status, e) ==
    [NoResp EXCEPT !.status = status, !.success = FALSE, !.error = e]

\* The per-call state of n send_email calls none of which has made a step.
NewCalls(n, state) ==
    /\ pc' = [t \in 1..n |-> state]
    /\ attempt' = [t \in 1..n |-> 0]
    /\ hist' = [t \in 1..n |-> <<>>]
    /\ delays' = [t \in 1..n |-> 0]
    /\ session' = [t \in 1..n |-> <<>>]
    /\ outcome' = [t \in 1..n |-> NoOutcome]

\* A response without any dispatch: nothing but the response changes.
Refuse(status, e) ==
    /\ mainpc' = "responded"
    /\ resp' = ErrorResponse(status, e)
    /\ UNCHANGED <<smtp_port, recipients, max_workers, submitted, pc, attempt,
                   hist, delays, session, outcome, waiter, yielded,
                   results, completion, health>>

\* Mutant: only the recipients are looked at.
BulkFieldsPresentRecipientsOnly(r) == r.truthy

\* all([from_email, password, recipients, subject, body])
BulkFieldsPresent(r) == r.missing = {} /\ r.truthy

\* isinstance(recipients, list) and len(recipients) > 0
IsNonEmptyList(r) == r.isList /\ Len(r.list) > 0

\* all([from_email, password, to_email, subject, body])
SingleFieldsPresent(r) == r.missing = {}

\* Mutant: an executor is created whatever max_workers.
PoolCreatedAlways(workers) == TRUE

\* ThreadPoolExecutor(max_workers=...) raises ValueError unless positive.
PoolCreated(workers) == workers > 0

\* send_bulk_emails, from the parse of the request to the creation of the
\* executor.
BulkRequest(r) ==
    /\ req' = r
    /\ IF ~BulkFieldsPresent(r)
       THEN Refuse(400, "Missing required fields")
       ELSE IF ~IsNonEmptyList(r)
       THEN Refuse(400, "Recipients must be a non-empty list")
       ELSE IF ~CanParseInt(r.port)
       THEN Refuse(500, "ValueError")
       ELSE IF ~PoolCreated(r.workers)
       THEN Refuse(500, "ValueError")
       ELSE /\ mainpc' = "submit"
            /\ smtp_port' = ParseInt(r.port)
            /\ recipients' = r.list
            /\ max_workers' = r.workers
            /\ NewCalls(Len(r.list), "new")
            /\ UNCHANGED <<submitted, waiter, yielded, results, resp,
                           completion, health>>

send_bulk_emails ==
    /\ mainpc = "idle"
    /\ \E missing \in SUBSET BulkFields, rcpts \in RecipientInputs,
          port \in PortInputs, workers \in WorkerInputs :
          BulkRequest([endpoint |-> "bulk", missing |-> missing,
                       isList |-> rcpts.isList, truthy |-> rcpts.truthy,
                       list |-> rcpts.list, port |-> port, workers |-> workers])

\* send_single_email up to the call of send_email, which runs in the request
\* thread.
SingleRequest(r) ==
    /\ req' = r
    /\ IF ~SingleFieldsPresent(r)
       THEN Refuse(400, "Missing required fields")
       ELSE IF ~CanParseInt(r.port)
       THEN Refuse(500, "ValueError")
       ELSE /\ mainpc' = "sending"
            /\ smtp_port' = ParseInt(r.port)
            /\ recipients' = r.list
            /\ max_workers' = 1
            /\ submitted' = 1
            /\ NewCalls(1, "attempt")
            /\ UNCHANGED <<waiter, yielded, results, resp, completion,
                           health>>

send_single_email ==
    /\ mainpc = "idle"
    /\ \E missing \in SUBSET SingleFields, to \in Addresses, port \in PortInputs :
          SingleRequest([endpoint |-> "single", missing |-> missing,
                         isList |-> FALSE, truthy |-> TRUE, list |-> <<to>>,
                         port |-> port, workers |-> 1])

(***************************************************************************)
(* The executor: submit, and a worker thread taking the next work item.    *)
(***************************************************************************)

\* executor.submit(sender.send_email, recipient, subject, body), once per
\* recipient in list order; the work item joins the executor's FIFO queue.
Submit ==
    /\ mainpc = "submit"
    /\ submitted < Len(recipients)
    /\ submitted' = submitted + 1
    /\ pc' = [pc EXCEPT ![submitted + 1] = "queued"]
    /\ UNCHANGED <<mainpc, req, smtp_port, recipients, max_workers, attempt,
                   hist, delays, session, outcome, waiter, yielded,
                   results, resp, completion, health>>

Queued == {t \in Tasks : pc[t] = "queued"}

\* Mutant: a thread per work item, whatever max_workers.
ThreadFreeAlways == TRUE

\* Mutant: one thread fewer than max_workers.
ThreadFreeOffByOne == Cardinality(InFlight) < max_workers - 1

\* The pool has a thread for one more work item.
ThreadFree == Cardinality(InFlight) < max_workers

\* The work item a free thread takes: the head of the FIFO queue.
QueueHead(t) == t \in Queued /\ \A u \in Queued : t <= u

\* A worker thread takes the head of the queue and calls send_email.
Start(t) ==
    /\ QueueHead(t)
    /\ ThreadFree
    /\ pc' = [pc EXCEPT ![t] = "attempt"]
    /\ UNCHANGED <<mainpc, req, smtp_port, recipients, max_workers, submitted,
                   attempt, hist, delays, session, outcome, waiter,
                   yielded, results, resp, completion, health>>

(***************************************************************************)
(* EmailSender.send_email.  The result of a transport attempt is "ok" or   *)
(* the class of the exception raised: "auth" (SMTPAuthenticationError),    *)
(* "rcpt" (SMTPRecipientsRefused), "smtp" (any other SMTPException),       *)
(* "other" (any other Exception: socket errors and timeouts, ssl errors,   *)
(* errors while the message is built).                                     *)
(***************************************************************************)

\* Mutant: except SMTPException placed before the clauses of its subclasses.
ClauseOrderBug(e) ==
    CASE e \in {"auth", "rcpt", "smtp"} -> "except SMTPException"
      [] e = "other" -> "except Exception"

\* Mutant: no except Exception clause.
ClauseNoGeneric(e) ==
    CASE e = "auth" -> "except SMTPAuthenticationError"
      [] e = "rcpt" -> "except SMTPRecipientsRefused"
      [] e = "smtp" -> "except SMTPException"
      [] e = "other" -> "none"

\* The except clause of send_email that catches exception e, by its line
\* order: the first clause whose class e is an instance of.
Clause(e) ==
    CASE e = "auth" -> "except SMTPAuthenticationError"
      [] e = "rcpt" -> "except SMTPRecipientsRefused"
      [] e = "smtp" -> "except SMTPException"
      [] e = "other" -> "except Exception"

\* The clauses that return at once.
Terminal(c) ==
    c \in {"except SMTPAuthenticationError", "except SMTPRecipientsRefused"}

\* if attempt < max_retries - 1, of the clause except smtplib.SMTPException
SmtpRetries(att) == att < max_retries - 1

\* Mutant: the clause except Exception returns at once.
OtherNeverRetries(att) == FALSE

\* if attempt < max_retries - 1, of the clause except Exception
OtherRetries(att) == att < max_retries - 1

\* Mutant: the attempts are counted on the sender, which the calls share.
RetriesSharedCount(c, att) ==
    /\ c \in {"except SMTPException", "except Exception"}
    /\ Cardinality({x \in Tasks \X (1..max_retries) : x[2] <= Len(hist[x[1]])})
         < max_retries - 1

\* The clause sleeps and continues the loop.
Retries(c, att) ==
    \/ c = "except SMTPException" /\ SmtpRetries(att)
    \/ c = "except Exception" /\ OtherRetries(att)

\* The 'error' of the dict a clause returns.
ErrorOf(c) ==
    CASE c = "except SMTPAuthenticationError" -> AuthError
      [] c = "except SMTPRecipientsRefused" -> RcptError
      [] c = "except SMTPException" -> SmtpError
      [] c = "except Exception" -> OtherError

\* Mutant: the recipient of the last loop turn (a late-bound loop variable).
SuccessLateBound(t) ==
    [recipient |-> recipients[Len(recipients)], success |-> TRUE, error |-> ""]

Failure(t, err) == [recipient |-> recipients[t], success |-> FALSE, error |-> err]
Success(t) == [recipient |-> recipients[t], success |-> TRUE, error |-> ""]

\* What a future holds when send_email did not return but raised.
Raised == [recipient |-> "", success |-> FALSE, error |-> "raised"]

\* The future of call t is set: as_completed's waiter, once installed, is told.
Completed(t) ==
    /\ waiter' = IF mainpc \in {"collect", "failed"} THEN Append(waiter, t)
                                                     ELSE waiter
    /\ completion' = Append(completion, t)

\* send_email ends: its future holds out.
Return(t, out) ==
    /\ pc' = [pc EXCEPT ![t] = "done"]
    /\ outcome' = [outcome EXCEPT ![t] = out]
    /\ Completed(t)

\* Mutant: the delay doubles with every retry.
RaiseBackoff(t, e) ==
    /\ hist' = [hist EXCEPT ![t] = Append(@, e)]
    /\ session' = [session EXCEPT ![t] = <<>>]
    /\ attempt' = attempt
    /\ LET c == Clause(e) IN
       IF Terminal(c) \/ ~Retries(c, attempt[t])
       THEN /\ Return(t, Failure(t, ErrorOf(c)))
            /\ delays' = delays
       ELSE /\ pc' = [pc EXCEPT ![t] = "sleep"]
            /\ delays' = [delays EXCEPT ![t] = @ + retry_delay * (2 ^ attempt[t])]
            /\ UNCHANGED <<outcome, waiter, completion>>

\* Mutant: an exception leaves the session open (no with block).
RaiseLeavesOpen(t, e) ==
    /\ hist' = [hist EXCEPT ![t] = Append(@, e)]
    /\ session' = session
    /\ attempt' = attempt
    /\ LET c == Clause(e) IN
       IF Terminal(c) \/ ~Retries(c, attempt[t])
       THEN /\ Return(t, Failure(t, ErrorOf(c)))
            /\ delays' = delays
       ELSE /\ pc' = [pc EXCEPT ![t] = "sleep"]
            /\ delays' = [delays EXCEPT ![t] = @ + retry_delay]
            /\ UNCHANGED <<outcome, waiter, completion>>

\* An attempt of call t ends with exception e: the with block has closed the
\* session, and the except clause that catches e runs; an exception no clause
\* catches leaves send_email.
Raise(t, e) ==
    /\ hist' = [hist EXCEPT ![t] = Append(@, e)]
    /\ session' = [session EXCEPT ![t] = <<>>]
    /\ attempt' = attempt
    /\ LET c == Clause(e) IN
       IF c = "none"
       THEN /\ Return(t, Raised)
            /\ delays' = delays
       ELSE IF Terminal(c) \/ ~Retries(c, attempt[t])
       THEN /\ Return(t, Failure(t, ErrorOf(c)))
            /\ delays' = delays
       ELSE /\ pc' = [pc EXCEPT ![t] = "sleep"]         \* time.sleep(retry_delay)
            /\ delays' = [delays EXCEPT ![t] = @ + retry_delay]
            /\ UNCHANGED <<outcome, waiter, completion>>

\* A step of the session of call t succeeds.
Step(t, to, name) ==
    /\ pc' = [pc EXCEPT ![t] = to]
    /\ session' = [session EXCEPT ![t] = Append(@, name)]
    /\ UNCHANGED <<attempt, hist, delays, outcome, waiter, completion>>

Others == <<mainpc, req, smtp_port, recipients, max_workers, submitted,
            yielded, results, resp, health>>

\* The message is built and the connection made: smtplib.SMTP_SSL on port
\* 465, smtplib.SMTP on any other port.
Connect(t) ==
    /\ pc[t] = "attempt"
    /\ \/ Step(t, "connected",
               IF smtp_port = 465 THEN "connect_ssl" ELSE "connect")
       \/ \E e \in {"smtp", "other"} : Raise(t, e)
    /\ UNCHANGED Others

\* server.starttls(context=context), on port 587 only
StartTLS(t) ==
    /\ pc[t] = "connected"
    /\ smtp_port = 587
    /\ \/ Step(t, "secured", "starttls")
       \/ \E e \in {"smtp", "other"} : Raise(t, e)
    /\ UNCHANGED Others

\* Mutant: login right after the connection, on port 587 too.
LoginBeforeUpgrade(t) ==
    /\ pc[t] = "connected"
    /\ \/ Step(t, "authed", "login")
       \/ \E e \in {"auth", "smtp", "other"} : Raise(t, e)
    /\ UNCHANGED Others

\* server.login(self.email, self.password)
Login(t) ==
    /\ \/ pc[t] = "connected" /\ smtp_port # 587
       \/ pc[t] = "secured"
    /\ \/ Step(t, "authed", "login")
       \/ \E e \in {"auth", "smtp", "other"} : Raise(t, e)
    /\ UNCHANGED Others

\* server.send_message(message)
SendMessage(t) ==
    /\ pc[t] = "authed"
    /\ \/ Step(t, "sent", "send")
       \/ \E e \in {"rcpt", "smtp", "other"} : Raise(t, e)
    /\ UNCHANGED Others

\* The with block ends (QUIT, close) and send_email returns success; an
\* exception of QUIT is handled like any other of the attempt.
Quit(t) ==
    /\ pc[t] = "sent"
    /\ \/ /\ hist' = [hist EXCEPT ![t] = Append(@, "ok")]
          /\ session' = [session EXCEPT ![t] = <<>>]
          /\ Return(t, Success(t))
          /\ UNCHANGED <<attempt, delays>>
       \/ \E e \in {"smtp", "other"} : Raise(t, e)
    /\ UNCHANGED Others

\* Mutant: a retry loop that does not count its turns.
ContinueNoCount(t) ==
    /\ pc[t] = "sleep"
    /\ pc' = [pc EXCEPT ![t] = "attempt"]
    /\ UNCHANGED <<attempt, outcome, waiter, completion, hist, delays,
                   session, Others>>

\* Mutant: a call that returned a failure before its last turn is retried.
ContinueRetriesFailed(t) ==
    /\ \/ pc[t] = "sleep"
       \/ pc[t] = "done" /\ ~outcome[t].success /\ attempt[t] < max_retries - 1
    /\ attempt' = [attempt EXCEPT ![t] = @ + 1]
    /\ pc' = [pc EXCEPT ![t] = "attempt"]
    /\ UNCHANGED <<outcome, waiter, completion, hist, delays, session, Others>>

\* time.sleep returns and the loop continues: the next attempt, or, with the
\* range exhausted, the return after the loop.
Continue(t) ==
    /\ pc[t] = "sleep"
    /\ attempt' = [attempt EXCEPT ![t] = @ + 1]
    /\ IF attempt[t] + 1 < max_retries
       THEN /\ pc' = [pc EXCEPT ![t] = "attempt"]
            /\ UNCHANGED <<outcome, waiter, completion>>
       ELSE Return(t, Failure(t, MaxRetriesError))
    /\ UNCHANGED <<hist, delays, session, Others>>

(***************************************************************************)
(* The request thread: as_completed, the statistics, the response.         *)
(***************************************************************************)

\* as_completed(future_to_recipient) is called with every task submitted: it
\* installs its waiter on the futures.
InstallWaiter ==
    /\ mainpc = "submit"
    /\ submitted = Len(recipients)
    /\ mainpc' = "collect"
    /\ completion' = Append(completion, 0)
    /\ UNCHANGED <<req, smtp_port, recipients, max_workers, submitted, pc,
                   attempt, hist, delays, session, outcome, waiter,
                   yielded, results, resp, health>>

\* The futures that were finished when as_completed was called and are not
\* yielded yet: as_completed yields them first, in the order of a set.
Early == {t \in Tasks : pc[t] = "done" /\ t \notin Range(waiter)
                          /\ t \notin Range(yielded)}

\* Mutant: the waiter's futures are taken newest first.
CollectNewestFirst ==
    /\ mainpc = "collect"
    /\ \E t \in Tasks :
         /\ IF Early # {} THEN t \in Early
                          ELSE waiter # <<>> /\ t = waiter[Len(waiter)]
         /\ waiter' = IF Early # {} THEN waiter
                                    ELSE SubSeq(waiter, 1, Len(waiter) - 1)
         /\ yielded' = Append(yielded, t)
         /\ IF outcome[t] = Raised
            THEN mainpc' = "failed" /\ results' = results
            ELSE mainpc' = mainpc /\ results' = Append(results, outcome[t])
    /\ UNCHANGED <<req, smtp_port, recipients, max_workers, submitted,
                   pc, attempt, hist, delays, session, outcome, resp,
                   completion, health>>

\* One turn of  for future in as_completed(...): results.append(future.result());
\* future.result() raises what send_email raised, which ends the loop.
Collect ==
    /\ mainpc = "collect"
    /\ \E t \in Tasks :
         /\ IF Early # {} THEN t \in Early
                          ELSE waiter # <<>> /\ t = Head(waiter)
         /\ waiter' = IF Early # {} THEN waiter ELSE Tail(waiter)
         /\ yielded' = Append(yielded, t)
         /\ IF outcome[t] = Raised
            THEN mainpc' = "failed" /\ results' = results
            ELSE mainpc' = mainpc /\ results' = Append(results, outcome[t])
    /\ UNCHANGED <<req, smtp_port, recipients, max_workers, submitted,
                   pc, attempt, hist, delays, session, outcome, resp,
                   completion, health>>

\* sum(1 for r in results if r['success'])
Successful(rs) == Cardinality({i \in DOMAIN rs : rs[i].success})

\* Mutant: success tells whether any recipient was reached.
BatchReportSuccessIfAny(rs) ==
    [status |-> 200, success |-> Successful(rs) > 0, error |-> "",
     total |-> Len(rs), successful |-> Successful(rs),
     failed |-> Len(rs) - Successful(rs), results |-> rs]

\* The statistics and the response of send_bulk_emails.
BatchReport(rs) ==
    [status |-> 200, success |-> TRUE, error |-> "", total |-> Len(rs),
     successful |-> Successful(rs), failed |-> Len(rs) - Successful(rs),
     results |-> rs]

\* Mutant: the report is returned with the first future collected.
RespondBulkFirst ==
    /\ mainpc = "collect" /\ Len(yielded) >= 1
    /\ mainpc' = "responded"
    /\ resp' = BatchReport(results)
    /\ UNCHANGED <<req, smtp_port, recipients, max_workers, submitted, pc,
                   attempt, hist, delays, session, outcome, waiter,
                   yielded, results, completion, health>>

\* The with block of the executor ends, which waits for every work item:
\* with as_completed exhausted the report is returned, and with an exception
\* under way the except clause of the handler answers 500.
RespondBulk ==
    /\ \/ mainpc = "collect" /\ Len(yielded) = Len(recipients)
       \/ mainpc = "failed" /\ \A t \in Tasks : pc[t] = "done"
    /\ mainpc' = "responded"
    /\ resp' = IF mainpc = "failed" THEN ErrorResponse(500, "raised")
                                    ELSE BatchReport(results)
    /\ UNCHANGED <<req, smtp_port, recipients, max_workers, submitted, pc,
                   attempt, hist, delays, session, outcome, waiter,
                   yielded, results, completion, health>>

\* return jsonify(result) of send_single_email
RespondSingle ==
    /\ mainpc = "sending"
    /\ pc[1] = "done"
    /\ mainpc' = "responded"
    /\ resp' = IF outcome[1] = Raised
                THEN ErrorResponse(500, "raised")
                ELSE [NoResp EXCEPT !.status = 200,
                                    !.success = outcome[1].success,
                                    !.error = outcome[1].error,
                                    !.results = <<outcome[1]>>]
    /\ UNCHANGED <<req, smtp_port, recipients, max_workers, submitted, pc,
                   attempt, hist, delays, session, outcome, waiter,
                   yielded, results, completion, health>>

Next ==
    \/ send_bulk_emails
    \/ send_single_email
    \/ Submit
    \/ InstallWaiter
    \/ Collect
    \/ RespondBulk
    \/ RespondSingle
    \/ \E t \in Tasks : Start(t)
    \/ \E t \in Tasks : Connect(t)
    \/ \E t \in Tasks : StartTLS(t)
    \/ \E t \in Tasks : Login(t)
    \/ \E t \in Tasks : SendMessage(t)
    \/ \E t \in Tasks : Quit(t)
    \/ \E t \in Tasks : Continue(t)

Spec == Init /\ [][Next]_vars

\* The steps of the request thread and of the send_email call t.
RequestThread == Submit \/ InstallWaiter \/ Collect \/ RespondBulk \/ RespondSingle
Call(t) ==
    \/ Start(t) \/ Connect(t) \/ StartTLS(t) \/ Login(t)
    \/ SendMessage(t) \/ Quit(t) \/ Continue(t)

\* Threads are scheduled fairly, and every transport call and every sleep
\* returns (the sessions are opened with timeout=30).
FairSpec ==
    /\ Spec
    /\ WF_vars(RequestThread)
    /\ \A t \in 1..MaxRecipients : WF_vars(t \in Tasks /\ Call(t))

(***************************************************************************)
(* GET /api/health, served by a thread of its own while a send request is  *)
(* under way or not.                                                       *)
(***************************************************************************)

Healthy == [status |-> 200, body |-> "healthy"]

\* Mutant: a health check that reports the failures of the send under way.
HealthOfSends ==
    IF \E t \in Tasks : pc[t] = "done" /\ ~outcome[t].success
    THEN [status |-> 503, body |-> "degraded"]
    ELSE [status |-> 200, body |-> "healthy"]

\* jsonify({'status': 'healthy', 'service': 'email-sender'})
HealthResponse == Healthy

health_check ==
    /\ health' = HealthResponse
    /\ UNCHANGED <<mainpc, req, smtp_port, recipients, max_workers, submitted,
                   pc, attempt, hist, delays, session, outcome, waiter,
                   yielded, results, resp, completion>>

NextHealth == Next \/ health_check

HealthSpec == Init /\ [][NextHealth]_vars

(***************************************************************************)
(* Properties.                                                             *)
(***************************************************************************)

Last(s) == s[Len(s)]

\* The bulk request passed the handler's validation and its sender and pool
\* were created.
Dispatched ==
    /\ req.endpoint = "bulk"
    /\ BulkFieldsPresent(req) /\ IsNonEmptyList(req)
    /\ CanParseInt(req.port) /\ req.workers > 0

\* The bulk request was answered with a BatchReport.
Reported == req.endpoint = "bulk" /\ mainpc = "responded" /\ resp.status = 200

\* C1: the report of a validated bulk request has one result per recipient,
\* total = len(results), total = successful + failed, and successful is the
\* number of calls that returned success; such a request, once answered, is
\* answered with a report.
C1_ReportCounts ==
    /\ (Dispatched /\ mainpc = "responded") => Reported
    /\ Reported =>
         /\ Len(resp.results) = Len(req.list)
         /\ resp.total = Len(resp.results)
         /\ resp.total = resp.successful + resp.failed
         /\ resp.successful = Cardinality({t \in Tasks : outcome[t].success})

C1_Witness ==
    /\ Reported
    /\ Len(req.list) = 2 /\ max_workers = 2
    /\ resp.successful = 1 /\ resp.failed = 1

\* Number of entries of the sequence s that carry address a.
CountAddr(s, a) == Cardinality({i \in DOMAIN s : s[i] = a})

\* C2: in a report, every address has as many outcomes as it has entries in
\* the input list.
C2_RecipientMultiset ==
    Reported =>
        \A a \in Addresses \cup {""} :
            CountAddr([i \in DOMAIN resp.results |-> resp.results[i].recipient], a)
                = CountAddr(req.list, a)

C2_Witness ==
    /\ Reported
    /\ req.list = <<"a@x", "a@x">>
    /\ Len(resp.results) = 2

\* C3: at most max_workers send_email calls of a bulk dispatch are in flight.
C3_ConcurrencyBound ==
    req.endpoint = "bulk" => Cardinality(InFlight) <= max_workers

C3_Witness ==
    /\ req.endpoint = "bulk"
    /\ Len(recipients) > max_workers
    /\ Cardinality(InFlight) = max_workers
    /\ Queued # {}
    /\ \E t \in Tasks : pc[t] = "sleep"

\* C4 (as claimed): a call whose three attempts all failed with a transient
\* SMTP error made 3 attempts and returned the failure "Max retries exceeded".
C4_ExhaustedClassified ==
    \A t \in Tasks :
        (pc[t] = "done" /\ hist[t] = <<"smtp", "smtp", "smtp">>) =>
            /\ ~outcome[t].success
            /\ outcome[t].error = MaxRetriesError

\* C5: a terminal result (authentication failure, recipient rejected) is the
\* last result of its call, at whichever attempt it occurs: the call has
\* returned a failure, and no attempt and no delay followed.
C5_TerminalImmediate ==
    \A t \in Tasks : \A k \in DOMAIN hist[t] :
        hist[t][k] \in {"auth", "rcpt"} =>
            /\ k = Len(hist[t])
            /\ pc[t] = "done"
            /\ ~outcome[t].success
            /\ outcome[t].recipient = recipients[t]
            /\ attempt[t] = k - 1
            /\ delays[t] = (k - 1) * retry_delay

C5_Witness ==
    \E t \in Tasks : pc[t] = "done" /\ hist[t] = <<"smtp", "auth">>

\* C6: a success at attempt k ends the call with exactly k attempts and a
\* successful outcome.
C6_SuccessEnds ==
    \A t \in Tasks : \A k \in DOMAIN hist[t] :
        hist[t][k] = "ok" =>
            /\ k = Len(hist[t])
            /\ k <= max_retries
            /\ pc[t] = "done"
            /\ outcome[t] = [recipient |-> recipients[t], success |-> TRUE,
                             error |-> ""]
            /\ attempt[t] = k - 1

C6_Witness ==
    \E t \in Tasks : pc[t] = "done" /\ hist[t] = <<"smtp", "smtp", "ok">>
                      /\ outcome[t].success

\* C7 (as claimed): a bulk request in which a call met an unexpected fault
\* is answered with a report that holds one outcome per call, the one of the
\* faulting call with success false.
C7_FaultOutcomeFailed ==
    (req.endpoint = "bulk" /\ mainpc = "responded"
        /\ \E t \in Tasks : "other" \in Range(hist[t])) =>
        /\ resp.status = 200
        /\ \A t \in Tasks :
             /\ Cardinality({i \in DOMAIN yielded : yielded[i] = t}) = 1
             /\ "other" \in Range(hist[t]) => ~outcome[t].success

\* C7 (amended): a dispatched bulk request is never answered with the
\* whole-request error: its response is a report in which every call, a
\* faulting one included, has exactly one outcome, and the outcome of a call
\* that met an unexpected fault is a failure unless a later attempt of that
\* call succeeded.
C7_FaultContained ==
    (req.endpoint = "bulk" /\ mainpc = "responded" /\ Tasks # {}) =>
        /\ resp.status = 200
        /\ Len(resp.results) = Len(yielded)
        /\ \A t \in Tasks :
             /\ pc[t] = "done"
             /\ Cardinality({i \in DOMAIN yielded : yielded[i] = t}) = 1
             /\ \A i \in DOMAIN yielded :
                  yielded[i] = t => resp.results[i] = outcome[t]
             /\ outcome[t].recipient = recipients[t]
             /\ "other" \in Range(hist[t]) =>
                  (outcome[t].success <=> Last(hist[t]) = "ok")

C7_Witness ==
    /\ Reported
    /\ Len(recipients) = 2
    /\ hist[1] = <<"other", "other", "other">>
    /\ ~outcome[1].success
    /\ outcome[2].success
    /\ resp.failed = 1

\* The request is one the validation of its endpoint rejects.
Rejected ==
    \/ /\ req.endpoint = "bulk"
       /\ \/ req.missing # {}
          \/ ~req.isList
          \/ Len(req.list) = 0
    \/ /\ req.endpoint = "single"
       /\ req.missing # {}

\* C8: a request rejected by validation is answered 400 with success false,
\* and no send_email call exists: no attempt, no session.
C8_RejectedNoTransport ==
    Rejected =>
        /\ mainpc = "responded"
        /\ resp.status = 400 /\ ~resp.success
        /\ Tasks = {}
        /\ hist = <<>> /\ session = <<>>
        /\ submitted = 0

C8_Witness ==
    /\ req.endpoint = "bulk"
    /\ req.missing = {}
    /\ req.isList /\ Len(req.list) = 0
    /\ resp.status = 400

\* A history with every unclassified error replaced by a transient one.
Norm(h) == [i \in DOMAIN h |-> IF h[i] = "other" THEN "smtp" ELSE h[i]]

Between == {"sleep", "done"}

\* C9: two calls whose histories differ only in unclassified errors standing
\* for transient ones are, after their last attempt, in the same position,
\* with the same number of attempts and of delays and the same success flag.
C9_SamePolicy ==
    \A t, u \in Tasks :
        (pc[t] \in Between /\ pc[u] \in Between
            /\ Norm(hist[t]) = Norm(hist[u])) =>
            /\ pc[t] = pc[u]
            /\ attempt[t] = attempt[u]
            /\ delays[t] = delays[u]
            /\ outcome[t].success = outcome[u].success

C9_Witness ==
    \E t, u \in Tasks :
        /\ pc[t] = "done" /\ pc[u] = "done"
        /\ hist[t] = <<"smtp", "smtp", "smtp">>
        /\ hist[u] = <<"other", "other", "other">>
        /\ delays[t] = 2 /\ delays[u] = 2

\* The steps of a whole session on a port, in the order claimed.
ExpectedSteps(port) ==
    CASE port = 465 -> <<"connect_ssl", "login", "send">>
      [] port = 587 -> <<"connect", "starttls", "login", "send">>
      [] OTHER -> <<"connect", "login", "send">>

IsPrefix(s, w) == Len(s) <= Len(w) /\ \A i \in DOMAIN s : s[i] = w[i]

C10_Order ==
    \A t \in Tasks :
        /\ IsPrefix(session[t], ExpectedSteps(smtp_port))
        /\ pc[t] = "authed" => Last(session[t]) = "login"
        /\ pc[t] = "sent" => session[t] = ExpectedSteps(smtp_port)

C10_AuthFailureStops ==
    \A t \in Tasks :
        (Len(hist'[t]) = Len(hist[t]) + 1 /\ Last(hist'[t]) = "auth") =>
            /\ "send" \notin Range(session[t])
            /\ session'[t] = <<>>
            /\ pc'[t] = "done"

\* C10: the steps of a session follow the order of its port (465: encrypted
\* connect, login, send; 587: connect, starttls, login, send; other:
\* connect, login, send), and an attempt whose login fails ends without
\* the message having been sent.
C10_SessionOrder == []C10_Order /\ [][C10_AuthFailureStops]_vars

C10_Witness ==
    \E t \in Tasks :
        /\ smtp_port = 587
        /\ session[t] = <<"connect", "starttls", "login", "send">>

\* What a health check leaves alone: everything but its own response.
SendState == <<mainpc, req, smtp_port, recipients, max_workers, submitted, pc,
               attempt, hist, delays, session, outcome, waiter, yielded,
               results, resp, completion>>

C11_Answer == ENABLED health_check /\ health \in {NoHealth, Healthy}

C11_Frame == health' # health => (health' = Healthy /\ UNCHANGED SendState)

\* C11: in every state a health check can be served, its response is
\* "healthy" with status 200, and serving it changes nothing of the send
\* request under way.
C11_HealthAlways == []C11_Answer /\ [][C11_Frame]_vars

C11_Witness ==
    /\ health = Healthy
    /\ mainpc = "collect"
    /\ \E t \in Tasks : pc[t] = "sleep"
    /\ \E t \in Tasks : pc[t] = "done" /\ ~outcome[t].success

\* The state of a call in the terms of the retry policy's state machine.
Attempting == {"attempt", "connected", "secured", "authed", "sent"}
Final == {"Succeeded", "TerminalFailure", "Exhausted"}

Phase(p, o, h) ==
    CASE p \in {"new", "queued"} -> "Pending"
      [] p \in Attempting -> "Attempting"
      [] p = "sleep" -> "RetryWait"
      [] p = "done" /\ o = Raised -> "Aborted"
      [] p = "done" /\ o # Raised /\ o.success -> "Succeeded"
      [] p = "done" /\ o # Raised /\ ~o.success /\ Last(h) \in {"auth", "rcpt"}
           -> "TerminalFailure"
      [] OTHER -> "Exhausted"

Allowed ==
    {<<"Pending", "Attempting">>, <<"Attempting", "Succeeded">>,
     <<"Attempting", "RetryWait">>, <<"RetryWait", "Attempting">>,
     <<"Attempting", "TerminalFailure">>, <<"Attempting", "Exhausted">>}

C12_Step ==
    \A t \in Tasks :
        LET a == Phase(pc[t], outcome[t], hist[t])
            b == Phase(pc'[t], outcome'[t], hist'[t])
        IN  /\ a = b \/ <<a, b>> \in Allowed
            /\ a \in Final =>
                 /\ pc'[t] = pc[t] /\ hist'[t] = hist[t]
                 /\ delays'[t] = delays[t] /\ attempt'[t] = attempt[t]
                 /\ session'[t] = session[t]
            /\ outcome'[t] # outcome[t] =>
                 outcome[t] = NoOutcome /\ a \notin Final /\ b \in Final
            /\ (a \notin Final /\ b \in Final) =>
                 outcome'[t].recipient = recipients[t]

\* C12: a call moves only along Pending -> Attempting, Attempting ->
\* Succeeded | RetryWait | TerminalFailure | Exhausted and RetryWait ->
\* Attempting; the three final states are absorbing, and the call's outcome
\* is produced exactly once, on reaching one of them.
C12_StateMachine == [][C12_Step]_vars

C12_Witness ==
    \E t \in Tasks :
        /\ hist[t] = <<"smtp", "other", "smtp">>
        /\ Phase(pc[t], outcome[t], hist[t]) = "Exhausted"

\* The number of transport attempts call t has started.
Started(t) == IF pc[t] \in Attempting THEN Len(hist[t]) + 1 ELSE Len(hist[t])

\* C13: a call never starts more than 3 attempts.
C13_AtMostThree ==
    \A t \in Tasks : Started(t) <= 3 /\ attempt[t] <= 2

C13_Witness ==
    \E t \in Tasks : pc[t] = "done" /\ Started(t) = 3
                      /\ Last(hist[t]) \in {"smtp", "other"}

\* C14: a call that has started k attempts has slept k-1 times one time
\* unit, plus once more while it waits for its next attempt, which only
\* happens after a retryable failure of the first or second attempt.
C14_DelayBetween ==
    \A t \in Tasks :
        /\ pc[t] = "sleep" =>
             /\ delays[t] = Len(hist[t])
             /\ Last(hist[t]) \in {"smtp", "other"}
             /\ Len(hist[t]) < 3
        /\ pc[t] \in Attempting \cup {"done"} => delays[t] = Started(t) - 1
        /\ pc[t] \in {"new", "queued"} => delays[t] = 0

C14_Witness ==
    \E t \in Tasks :
        /\ pc[t] = "done"
        /\ hist[t] = <<"other", "smtp", "rcpt">>
        /\ delays[t] = 2

\* C15: under fair scheduling a dispatched bulk request is eventually
\* answered with its report, and every submitted call is eventually started
\* and reaches its end, also with more recipients than workers.
C15_EventuallyReported ==
    (req.endpoint = "bulk" /\ mainpc = "submit") ~>
        (Reported /\ \A t \in Tasks : pc[t] = "done" /\ t \in Range(yielded))

C15_Witness ==
    /\ Reported
    /\ Len(recipients) > max_workers
    /\ \A t \in Tasks : Len(hist[t]) = max_retries

\* The outcome the retry policy gives a call for recipient r whose attempts
\* had the results h.
PolicyOutcome(r, h) ==
    [recipient |-> r,
     success |-> Last(h) = "ok",
     error |-> CASE Last(h) = "ok" -> ""
                 [] Last(h) = "auth" -> AuthError
                 [] Last(h) = "rcpt" -> RcptError
                 [] Last(h) = "smtp" -> SmtpError
                 [] Last(h) = "other" -> OtherError]

\* The call with attempt results h has ended.
PolicyEnds(h) == Last(h) \in {"ok", "auth", "rcpt"} \/ Len(h) = 3

\* C16: whether a call has ended, its number of attempts and its outcome are
\* functions of its own attempt results alone, whatever the other calls, the
\* recipient order and max_workers are.
C16_OwnResultsOnly ==
    \A t \in Tasks :
        /\ (pc[t] \in Between /\ PolicyEnds(hist[t])) => pc[t] = "done"
        /\ pc[t] = "done" =>
             /\ PolicyEnds(hist[t])
             /\ outcome[t] = PolicyOutcome(recipients[t], hist[t])
             /\ attempt[t] = Len(hist[t]) - 1

C16_Witness ==
    /\ Reported
    /\ max_workers = 1
    /\ Len(recipients) = 2
    /\ hist[1] = <<"smtp", "smtp", "other">>
    /\ hist[2] = <<"smtp", "ok">>

Open(t) == session[t] # <<>>
Connects(s) == {i \in DOMAIN s : s[i] \in {"connect", "connect_ssl"}}

\* C17: a call has an open session only inside an attempt, after its connect
\* step; the session holds one connect step, its first; no session is open
\* before the call starts, during a retry delay or after the call has
\* returned, and none is open once the request is answered.
C17_OneSessionPerAttempt ==
    /\ \A t \in Tasks :
         /\ pc[t] \in {"new", "queued", "attempt", "sleep", "done"} => ~Open(t)
         /\ pc[t] \in {"connected", "secured", "authed", "sent"} =>
              Open(t) /\ Connects(session[t]) = {1}
    /\ mainpc = "responded" => \A t \in Tasks : ~Open(t)

C17_Witness ==
    \E t, u \in Tasks :
        /\ pc[t] = "sleep" /\ ~Open(t) /\ Len(hist[t]) = 2
        /\ pc[u] = "sent" /\ Open(u) /\ Len(hist[u]) = 1

\* The position of x in the sequence s (x occurs in s).
Pos(s, x) == CHOOSE i \in DOMAIN s : s[i] = x

\* Call a completed before call b.
CompletedBefore(a, b) ==
    /\ a \in Range(completion) /\ b \in Range(completion)
    /\ Pos(completion, a) < Pos(completion, b)

\* Call b completed after as_completed was called.
CompletedLate(b) ==
    /\ 0 \in Range(completion) /\ b \in Range(completion)
    /\ Pos(completion, 0) < Pos(completion, b)

\* C18 (as claimed): in a report, the outcome of a call that completed
\* before another precedes the other's.
C18_CompletionOrder ==
    Reported =>
        \A a, b \in Tasks :
            CompletedBefore(a, b) => Pos(yielded, a) < Pos(yielded, b)

\* C18 (amended): results holds the outcomes in the order as_completed
\* yields the futures: a call that completed before a call b which itself
\* completed after as_completed was called precedes b; the calls that had
\* completed when as_completed was called come first, in any order.
C18_CollectionOrder ==
    /\ Len(results) = Len(yielded)
    /\ \A i \in DOMAIN results : results[i] = outcome[yielded[i]]
    /\ \A b \in Range(yielded) : \A a \in Tasks :
         (CompletedBefore(a, b) /\ CompletedLate(b)) =>
             a \in Range(yielded) /\ Pos(yielded, a) < Pos(yielded, b)
    /\ \A b \in Range(yielded) : \A a \in Tasks :
         (a \in Range(completion) /\ ~CompletedLate(a) /\ CompletedLate(b)) =>
             a \in Range(yielded) /\ Pos(yielded, a) < Pos(yielded, b)

C18_Witness ==
    /\ Reported
    /\ completion = <<0, 2, 1>>
    /\ yielded = <<2, 1>>
    /\ recipients = <<"a@x", "b@x">>
    /\ resp.results[1].recipient = "b@x"

\* C19: a bulk request with its fields present, a non-empty recipient list
\* and max_workers <= 0 is answered 500 with success false: no call is
\* submitted, no attempt made, no outcome or report returned.
C19_NonPositiveWorkers ==
    (req.endpoint = "bulk" /\ BulkFieldsPresent(req) /\ IsNonEmptyList(req)
        /\ req.workers <= 0) =>
        /\ mainpc = "responded"
        /\ resp.status = 500 /\ ~resp.success
        /\ resp.results = <<>> /\ resp.total = 0
        /\ Tasks = {} /\ submitted = 0 /\ results = <<>>

C19_Witness ==
    /\ req.endpoint = "bulk" /\ BulkFieldsPresent(req) /\ IsNonEmptyList(req)
    /\ CanParseInt(req.port)
    /\ req.workers = 0
    /\ resp.status = 500

\* C20: the success flag of a bulk response is true exactly when the request
\* was dispatched (status 200), whatever the outcomes, and false exactly on
\* the 400 and 500 responses.
C20_TopLevelSuccess ==
    (req.endpoint = "bulk" /\ mainpc = "responded") =>
        /\ resp.status \in {200, 400, 500}
        /\ resp.success <=> resp.status = 200
        /\ resp.success <=> Tasks # {}
        /\ resp.status = 400 <=> Rejected
        /\ resp.status = 500 <=>
             (~Rejected /\ (~CanParseInt(req.port) \/ req.workers <= 0))

C20_Witness ==
    /\ Reported
    /\ resp.success
    /\ resp.total = 2 /\ resp.failed = 2 /\ resp.successful = 0

====
